---- MODULE Spec2Model ----
(***************************************************************************)
(* NewFileAction (python/tk_multi_workfiles/actions/new_file_action.py).   *)
(*                                                                         *)
(* One run of NewFileAction.execute is modelled as a state machine whose   *)
(* steps are the calls execute makes into its collaborators.  Every        *)
(* collaborator is external: its outcome (return value or raised           *)
(* exception) is chosen nondeterministically from small sets.  The calls   *)
(* made so far are kept, in order, in the history variable calls.          *)
(*                                                                         *)
(* Strings are sequences of tokens; the token "\n" is the newline          *)
(* character, every other token is a run of characters without newline.    *)
(***************************************************************************)
EXTENDS Naturals, Sequences, FiniteSets

VARIABLES
    environment,   \* self._environment: the WorkArea given to __init__
    appContext,    \* self._app.context
    pc,            \* position inside execute
    calls,         \* collaborator calls made so far, in order
    exc,           \* the exception in flight / bound by the except clause
    result         \* what execute gave back to its caller

vars == <<environment, appContext, pc, calls, exc, result>>

----------------------------------------------------------------------------
(* Bounds of the model *)

\* longest text, in tokens, of an exception raised by a collaborator
MaxMsgLen == 2

----------------------------------------------------------------------------
(* Python values *)

None == [type |-> "NoneType"]
False == [type |-> "bool", value |-> 0]
True == [type |-> "bool", value |-> 1]

\* the bool object of a condition
Bool(b) == IF b THEN True ELSE False

\* bool(v): None and False are falsy; entity dictionaries (never empty),
\* templates and True are truthy
Truthy(v) == v \notin {None, False}

\* sgtk Context objects: project and entity are None or an entity dictionary
Projects == {None, [type |-> "Project", id |-> 1]}
Entities == {None, [type |-> "Asset", id |-> 1], [type |-> "Shot", id |-> 2]}
Contexts == [type : {"Context"}, project : Projects, entity : Entities]

Templates == {None, [type |-> "Template"]}

WorkAreas ==
    [context : Contexts \cup {None},
     work_template : Templates,
     work_area_template : Templates]

\* text of an exception: tokens "a" (some characters) and "\n"
MsgTokens == {"a", "\n"}

RECURSIVE SeqsUpTo(_, _)
SeqsUpTo(S, n) ==
    IF n = 0 THEN {<<>>}
    ELSE LET shorter == SeqsUpTo(S, n - 1)
         IN  shorter \cup {Append(s, t) : s \in {u \in shorter : Len(u) = n - 1}, t \in S}

Messages == SeqsUpTo(MsgTokens, MaxMsgLen)

\* Exception classes: TankError is a subclass of Exception; "RuntimeError"
\* stands for any Exception subclass that is not a TankError,
\* "KeyboardInterrupt" for a BaseException that is not an Exception.
ExcTypes == {"TankError", "RuntimeError", "KeyboardInterrupt"}

Exceptions == [type : ExcTypes, msg : Messages]

\* isinstance(e, cls) for the classes named in the except clauses
IsInstance(e, cls) ==
    CASE cls = "TankError" -> e.type = "TankError"
      [] cls = "Exception" -> e.type \in {"TankError", "RuntimeError"}
      [] cls = "BaseException" -> TRUE

----------------------------------------------------------------------------
(* NewFileAction.can_do_new_file *)

\* a bug that forgets the work_area_template operand (line 38)
can_do_new_file_WithoutTemplate(env) ==
    IF env.context = None THEN False
    ELSE IF Truthy(env.context.entity) THEN env.context.entity
    ELSE env.context.project

\* the value of the and/or expression, with Python's short-circuit rules:
\* "a and b" is a when a is falsy, else b; "a or b" is a when a is truthy.
can_do_new_file(env) ==
    IF env.context = None THEN False
    ELSE LET entity_or_project ==
                 IF Truthy(env.context.entity) THEN env.context.entity
                 ELSE env.context.project
         IN  IF ~Truthy(entity_or_project) THEN entity_or_project
             ELSE Bool(env.work_area_template # None)

----------------------------------------------------------------------------
(* Collaborator calls *)

Call(op, arg, outcome) == [op |-> op, arg |-> arg, outcome |-> outcome]

\* outcomes of a call
Returned(v) == [kind |-> "returned", value |-> v]
Raised(e) == [kind |-> "raised", exception |-> e]

----------------------------------------------------------------------------
(* String operations used by execute *)

\* str.split("\n"): the pieces between newlines; never an empty list
RECURSIVE Split(_)
Split(s) ==
    IF s = <<>> THEN << <<>> >>
    ELSE LET rest == Split(Tail(s))
         IN  IF Head(s) = "\n" THEN << <<>> >> \o rest
             ELSE << <<Head(s)>> \o Head(rest) >> \o Tail(rest)

\* sep.join(pieces)
RECURSIVE Join(_, _)
Join(sep, pieces) ==
    IF pieces = <<>> THEN <<>>
    ELSE IF Len(pieces) = 1 THEN pieces[1]
    ELSE pieces[1] \o sep \o Join(sep, Tail(pieces))

\* Action.__init__(self, "New File")
label == <<"New File">>

\* line 75: the text logged with the original TankError
ResolveFailedLog == <<"Unable to resolve template fields after folder creation!">>

\* a bug that leaves the original error text out of the new message
WrappedMessage_WithoutError(error) ==
    <<"Unable to resolve template fields after folder creation!",
      "  This could mean there is a mismatch between your folder schema and templates. Please contact us via ",
      "{support_url}",
      " if you need help fixing this.">>

\* lines 79-85: the text of the TankError that replaces the original one
WrappedMessage(error) ==
    <<"Unable to resolve template fields after folder creation!",
      "  This could mean there is a mismatch between your folder schema and templates. Please contact us via ",
      "{support_url}",
      " if you need help fixing this.",
      "\n", "\n">> \o error

\* line 104
error_title == <<"Failed to complete '">> \o label \o <<"' action">>

\* lines 105-109: the text of the message box for exception text msg
BoxText(msg) ==
    LET error_strs == Split(msg)
    IN  error_title \o
        (IF error_strs[1] # <<>> THEN <<"\n", "\n">> \o error_strs[1] ELSE <<>>)

\* lines 118-119: the detailed text of the message box ("" unless set)
BoxDetailedText(msg) ==
    LET error_strs == Split(msg)
    IN  IF Tail(error_strs) # <<>> THEN Join(<<" ">>, Tail(error_strs)) ELSE <<>>

----------------------------------------------------------------------------
(* NewFileAction.execute *)

Init ==
    /\ environment \in WorkAreas
    /\ appContext \in Contexts
    /\ pc = "entry"
    /\ calls = <<>>
    /\ exc = None
    /\ result = None

\* a bug that drops the "not" of line 57
PreconditionFails_Inverted(env) == Truthy(can_do_new_file(env))

\* line 57: if not NewFileAction.can_do_new_file(self._environment)
PreconditionFails(env) == ~Truthy(can_do_new_file(env))

\* lines 57-60
CheckCanDoNewFile ==
    /\ pc = "entry"
    /\ IF PreconditionFails(environment)
       THEN /\ result' = Returned(False)
            /\ pc' = "done"
       ELSE /\ pc' = "create_folders"
            /\ UNCHANGED result
    /\ UNCHANGED <<environment, appContext, calls, exc>>

\* a bug that narrows the outer clause to "except TankError"
Handler_OuterCatchesTankErrorOnly(e, inner) ==
    IF inner /\ IsInstance(e, "TankError") THEN "except_TankError"
    ELSE IF IsInstance(e, "TankError") THEN "except_Exception"
    ELSE "propagate"

\* Where control goes when e is raised: inner says whether the raising
\* statement is inside the inner try (lines 64-72), whose except clause
\* (line 73) is tried before the outer one (line 103).
Handler(e, inner) ==
    IF inner /\ IsInstance(e, "TankError") THEN "except_TankError"
    ELSE IF IsInstance(e, "Exception") THEN "except_Exception"
    ELSE "propagate"

\* e is raised by a statement of the outer try body
Raise(e, inner) ==
    /\ exc' = e
    /\ pc' = IF Handler(e, inner) = "propagate" THEN "done" ELSE Handler(e, inner)
    /\ result' = IF Handler(e, inner) = "propagate" THEN Raised(e) ELSE result

\* a bug that wraps each call in "try: ... except: pass"
CallStep_Swallows(op, arg, inner, next) ==
    /\ \E outcome \in {Returned(None)} \cup {Raised(e) : e \in Exceptions} :
          calls' = Append(calls, Call(op, arg, outcome))
    /\ pc' = next
    /\ UNCHANGED <<exc, result>>

\* A collaborator is called: it returns (and execute goes on at next) or raises.
CallStep(op, arg, inner, next) ==
    \/ /\ calls' = Append(calls, Call(op, arg, Returned(None)))
       /\ pc' = next
       /\ UNCHANGED <<exc, result>>
    \/ \E e \in Exceptions :
          /\ calls' = Append(calls, Call(op, arg, Raised(e)))
          /\ Raise(e, inner)

\* lines 66-68
CreateFolders ==
    /\ pc = "create_folders"
    /\ CallStep("create_folders_if_needed",
                [context |-> environment.context, template |-> environment.work_template],
                TRUE, "as_template_fields")
    /\ UNCHANGED <<environment, appContext>>

\* lines 70-72
AsTemplateFields ==
    /\ pc = "as_template_fields"
    /\ CallStep("as_template_fields",
                [context |-> environment.context, template |-> environment.work_template,
                 validate |-> True],
                TRUE, "reset_current_scene")
    /\ UNCHANGED <<environment, appContext>>

\* lines 73-85: log the original TankError, raise the clearer one; the raise
\* statement is in the except clause, so only the outer handler can catch it
ExceptTankError ==
    /\ pc = "except_TankError"
    /\ calls' = Append(calls, Call("log_exception", [msg |-> ResolveFailedLog], Returned(None)))
    /\ Raise([type |-> "TankError", msg |-> WrappedMessage(exc.msg)], FALSE)
    /\ UNCHANGED <<environment, appContext>>

\* a bug that ignores what reset_current_scene returns
ResetFailed_Ignored(v) == FALSE

\* line 88: if not reset_current_scene(...)
ResetFailed(v) == ~Truthy(v)

\* lines 88-94
ResetCurrentScene ==
    /\ pc = "reset_current_scene"
    /\ LET arg == [action |-> "NEW_FILE_ACTION", context |-> environment.context]
       IN  \/ \E v \in {True, False, None} :
                IF ~ResetFailed(v)
                THEN /\ calls' = Append(calls, Call("reset_current_scene", arg, Returned(v)))
                     /\ pc' = "prepare_new_scene"
                     /\ UNCHANGED <<exc, result>>
                ELSE /\ calls' = calls \o
                          << Call("reset_current_scene", arg, Returned(v)),
                             Call("log_debug",
                                  [msg |-> <<"Unable to perform New Scene operation after failing to reset scene!">>],
                                  Returned(None)) >>
                     /\ pc' = "done"
                     /\ result' = Returned(False)
                     /\ UNCHANGED exc
           \/ \E e \in Exceptions :
                /\ calls' = Append(calls, Call("reset_current_scene", arg, Raised(e)))
                /\ Raise(e, FALSE)
    /\ UNCHANGED <<environment, appContext>>

\* line 97
PrepareNewScene ==
    /\ pc = "prepare_new_scene"
    /\ CallStep("prepare_new_scene",
                [action |-> "NEW_FILE_ACTION", context |-> environment.context],
                FALSE, "compare_context")
    /\ UNCHANGED <<environment, appContext>>

\* a bug that drops the "not" of line 99
ContextDiffers_Inverted(env_context, app_context) == env_context = app_context

\* line 99: if not self._environment.context == self._app.context
ContextDiffers(env_context, app_context) == ~(env_context = app_context)

\* lines 99-101
ChangeContext ==
    /\ pc = "compare_context"
    /\ IF ContextDiffers(environment.context, appContext)
       THEN CallStep("change_context", [context |-> environment.context], FALSE, "else")
       ELSE /\ pc' = "else"
            /\ UNCHANGED <<calls, exc, result>>
    /\ UNCHANGED <<environment, appContext>>

\* lines 103-124: the message box is built, shown, then the failure is logged
ExceptException ==
    /\ pc = "except_Exception"
    /\ calls' = calls \o
          << Call("QMessageBox.exec_",
                  [title |-> error_title,
                   text |-> BoxText(exc.msg),
                   detailedText |-> BoxDetailedText(exc.msg)],
                  Returned(None)),
             Call("log_exception", [msg |-> error_title], Returned(None)) >>
    /\ result' = Returned(False)
    /\ pc' = "done"
    /\ UNCHANGED <<environment, appContext, exc>>

\* a bug that writes "except Exception:" for the bare except of line 128
MetricErrorIgnored_ExceptionOnly(e) == IsInstance(e, "Exception")

\* line 128: the bare except catches whatever log_metric raises
MetricErrorIgnored(e) == IsInstance(e, "BaseException")

\* lines 125-132: the else clause is outside the reach of line 103, so an
\* error the inner except did not catch would leave execute
LogMetric ==
    /\ pc = "else"
    /\ \E outcome \in {Returned(None)} \cup {Raised(e) : e \in Exceptions} :
          /\ calls' = Append(calls, Call("log_metric", [msg |-> <<"New Workfile">>], outcome))
          /\ result' = IF outcome.kind = "raised" /\ ~MetricErrorIgnored(outcome.exception)
                       THEN outcome
                       ELSE Returned(True)
    /\ pc' = "done"
    /\ UNCHANGED <<environment, appContext, exc>>

Next ==
    \/ CheckCanDoNewFile
    \/ CreateFolders
    \/ AsTemplateFields
    \/ ExceptTankError
    \/ ResetCurrentScene
    \/ PrepareNewScene
    \/ ChangeContext
    \/ ExceptException
    \/ LogMetric

Spec == Init /\ [][Next]_vars

----------------------------------------------------------------------------
(* Reading the history *)

CallsOf(op) == SelectSeq(calls, LAMBDA c : c.op = op)
Count(op) == Len(CallsOf(op))

\* the steps of execute, in the order of the source text
Steps ==
    <<"create_folders_if_needed", "as_template_fields", "reset_current_scene",
      "prepare_new_scene", "change_context">>

IsStep(c) == \E i \in 1..Len(Steps) : c.op = Steps[i]
StepCalls == SelectSeq(calls, IsStep)

\* the call returned; reset_current_scene also returned a truthy value
Completed(c) ==
    /\ c.outcome.kind = "returned"
    /\ c.op = "reset_current_scene" => Truthy(c.outcome.value)

\* op was called and completed
Done(op) == \E i \in 1..Len(calls) : calls[i].op = op /\ Completed(calls[i])

\* some step raised; some step raised an Exception
StepRaised == \E i \in 1..Len(StepCalls) : StepCalls[i].outcome.kind = "raised"
StepRaisedException ==
    \E i \in 1..Len(StepCalls) :
        /\ StepCalls[i].outcome.kind = "raised"
        /\ StepCalls[i].outcome.exception.type \in {"TankError", "RuntimeError"}

\* the environment passes the precondition, stated without can_do_new_file
Usable(env) ==
    /\ env.context # None
    /\ env.context.entity # None \/ env.context.project # None
    /\ env.work_area_template # None

\* reset_current_scene returned a falsy value
ResetReturnedFalsy ==
    \E i \in 1..Len(calls) :
        /\ calls[i].op = "reset_current_scene"
        /\ calls[i].outcome.kind = "returned"
        /\ ~Truthy(calls[i].outcome.value)

\* the exception create_folders_if_needed or as_template_fields raised,
\* None if neither did
InnerRaise ==
    LET last == StepCalls[Len(StepCalls)]
    IN  IF /\ StepCalls # <<>>
           /\ last.op \in {"create_folders_if_needed", "as_template_fields"}
           /\ last.outcome.kind = "raised"
        THEN last.outcome.exception
        ELSE None

EndsWith(s, t) ==
    /\ Len(t) <= Len(s)
    /\ SubSeq(s, Len(s) - Len(t) + 1, Len(s)) = t

FailureTitle == <<"Failed to complete '", "New File", "' action">>

----------------------------------------------------------------------------
(* Claims *)

\* C1: the step calls made so far are an initial part of create_folders_if_needed,
\* as_template_fields, reset_current_scene, prepare_new_scene, change_context
\* (so each at most once and in that order), and every call but the last one
\* made completed: it returned, reset_current_scene with a truthy value.
C1_StepOrder ==
    /\ Len(StepCalls) <= Len(Steps)
    /\ \A i \in 1..Len(StepCalls) : StepCalls[i].op = Steps[i]
    /\ \A i \in 1..(Len(StepCalls) - 1) : Completed(StepCalls[i])

C1_Witness ==
    /\ pc = "done"
    /\ Len(StepCalls) = Len(Steps)
    /\ StepCalls[Len(Steps)].op = "change_context"

\* C2: with a falsy can_do_new_file(environment) no collaborator is ever
\* called and execute returns False.
C2_PreconditionFrame ==
    ~Truthy(can_do_new_file(environment)) =>
        /\ calls = <<>>
        /\ pc \in {"entry", "done"}
        /\ pc = "done" => result = Returned(False)

C2_Witness ==
    /\ pc = "done"
    /\ ~Truthy(can_do_new_file(environment))
    /\ result = Returned(False)

\* C3: can_do_new_file(env) is truthy exactly when env.context is not None,
\* the context has an entity or a project, and env.work_area_template is not
\* None; for a None context it is falsy (and no attribute of None is read).
C3_CanDoNewFile ==
    /\ Truthy(can_do_new_file(environment)) <=> Usable(environment)
    /\ environment.context = None => can_do_new_file(environment) = False

C3_Witness ==
    /\ pc = "create_folders"
    /\ Usable(environment)
    /\ environment.context.entity = None

\* C4: when a step raised an Exception, execute ends having shown exactly one
\* message box, followed by log_exception("Failed to complete 'New File'
\* action"), and returns False instead of raising; when no step raised, no
\* message box is ever shown.
C4_ErrorDialog ==
    /\ (pc = "done" /\ StepRaisedException) =>
          /\ Count("QMessageBox.exec_") = 1
          /\ Len(calls) >= 2
          /\ calls[Len(calls) - 1].op = "QMessageBox.exec_"
          /\ calls[Len(calls)].op = "log_exception"
          /\ calls[Len(calls)].arg.msg = FailureTitle
          /\ result = Returned(False)
    /\ ~StepRaised => Count("QMessageBox.exec_") = 0

C4_Witness ==
    /\ pc = "done"
    /\ Count("change_context") = 1
    /\ StepRaisedException
    /\ exc.type = "RuntimeError"
    /\ Count("QMessageBox.exec_") = 1

\* C5: at the end of execute, change_context was called exactly when the
\* precondition held, folder creation, validation and prepare_new_scene
\* completed, reset_current_scene returned truthy, and environment.context
\* differs from the app's context; with equal contexts it is never called.
C5_ChangeContext ==
    /\ pc = "done" =>
          (Count("change_context") >= 1 <=>
              /\ Usable(environment)
              /\ Done("create_folders_if_needed")
              /\ Done("as_template_fields")
              /\ Done("reset_current_scene")
              /\ Done("prepare_new_scene")
              /\ environment.context # appContext)
    /\ environment.context = appContext => Count("change_context") = 0
    /\ \A i \in 1..Len(calls) :
          calls[i].op = "change_context" => calls[i].arg.context = environment.context

C5_Witness ==
    /\ pc = "done"
    /\ Done("prepare_new_scene")
    /\ environment.context = appContext
    /\ Count("change_context") = 0
    /\ result = Returned(True)

\* C6: once reset_current_scene has returned a falsy value, execute has
\* called log_debug right after it and returned False, and prepare_new_scene,
\* change_context, the message box, log_exception and log_metric are not called.
C6_ResetFailed ==
    ResetReturnedFalsy =>
        /\ pc = "done"
        /\ result = Returned(False)
        /\ calls[Len(calls) - 1].op = "reset_current_scene"
        /\ calls[Len(calls)].op = "log_debug"
        /\ Count("log_debug") = 1
        /\ Count("prepare_new_scene") = 0
        /\ Count("change_context") = 0
        /\ Count("QMessageBox.exec_") = 0
        /\ Count("log_exception") = 0
        /\ Count("log_metric") = 0

C6_Witness ==
    /\ pc = "done"
    /\ ResetReturnedFalsy
    /\ calls[Len(calls) - 1].outcome.value = None

\* C7: at the end of execute, if create_folders_if_needed or
\* as_template_fields raised a TankError, log_exception was called exactly
\* twice (first for the original error, then for the failed action), the
\* message box was shown once, and the exception handled is a new TankError
\* whose text begins with "Unable to resolve template fields after folder
\* creation!" and ends with the original text; if they raised another
\* Exception, it is handled unwrapped and log_exception was called once.
C7_TankErrorWrapped ==
    (pc = "done" /\ InnerRaise # None) =>
        /\ InnerRaise.type = "TankError" =>
              /\ Count("log_exception") = 2
              /\ CallsOf("log_exception")[1].arg.msg =
                     <<"Unable to resolve template fields after folder creation!">>
              /\ CallsOf("log_exception")[2].arg.msg = FailureTitle
              /\ Count("QMessageBox.exec_") = 1
              /\ exc.type = "TankError"
              /\ exc # InnerRaise
              /\ exc.msg[1] = "Unable to resolve template fields after folder creation!"
              /\ EndsWith(exc.msg, InnerRaise.msg)
              /\ Len(exc.msg) > Len(InnerRaise.msg)
        /\ InnerRaise.type = "RuntimeError" =>
              /\ exc = InnerRaise
              /\ Count("log_exception") = 1
              /\ Count("QMessageBox.exec_") = 1

C7_Witness ==
    /\ pc = "done"
    /\ Len(StepCalls) = 2
    /\ InnerRaise # None
    /\ InnerRaise.type = "TankError"
    /\ InnerRaise.msg = <<"a", "\n">>
    /\ Count("log_exception") = 2

\* C8: log_metric is called at most once, and only after the precondition
\* held and all of folder creation, validation, reset (truthy) and prepare
\* completed and no step raised; whatever log_metric does, execute then
\* returns True and neither a message box nor log_exception has been used.
C8_LogMetric ==
    /\ Count("log_metric") <= 1
    /\ Count("log_metric") = 1 =>
          /\ CallsOf("log_metric")[1].arg.msg = <<"New Workfile">>
          /\ Usable(environment)
          /\ ~StepRaised
          /\ Done("create_folders_if_needed")
          /\ Done("as_template_fields")
          /\ Done("reset_current_scene")
          /\ Done("prepare_new_scene")
          /\ calls[Len(calls)].op = "log_metric"
          /\ pc = "done"
          /\ result = Returned(True)
          /\ Count("QMessageBox.exec_") = 0
          /\ Count("log_exception") = 0

C8_Witness ==
    /\ pc = "done"
    /\ Count("log_metric") = 1
    /\ CallsOf("log_metric")[1].outcome.kind = "raised"
    /\ CallsOf("log_metric")[1].outcome.exception.type = "KeyboardInterrupt"
    /\ result = Returned(True)

====
